---------------------------- MODULE Spec2Model ----------------------------
(***************************************************************************)
(* Identifier generation and obfuscation of grayscalecloud/kitexcommon:    *)
(*   - idworker.IdWorker      (src/idworker/idworker.go)                   *)
(*   - tools.GenerateFlowNo   (src/tools/flow_no.go)                       *)
(*   - utils.IntObfuscator    (src/unnamed/part_023)                       *)
(*                                                                         *)
(* Go's int64/uint64 values are modelled as 64-bit words: a word is the    *)
(* set of the positions (0 = least significant .. 63 = sign) of its 1      *)
(* bits, so that shifts, masks, two's-complement wrap-around and the bit   *)
(* permutation are computed exactly at their 64-bit width.                 *)
(***************************************************************************)
EXTENDS Integers, Sequences, FiniteSets, TLC

(***************************************************************************)
(* 64-bit words                                                            *)
(***************************************************************************)
WordBits == 64

BitPos == 0 .. (WordBits - 1)

Word == SUBSET BitPos

Zero == {}

One == {0}

\* the word of a natural number below 2^31
FromNat(n) == {i \in 0 .. 30 : (n \div (2 ^ i)) % 2 = 1}

Not(a) == BitPos \ a

And(a, b) == a \cap b

Or(a, b) == a \cup b

Xor(a, b) == (a \ b) \cup (b \ a)

\* a << k and a >> k (logical) on 64 bits
Shl(a, k) == {i + k : i \in {j \in a : j + k < WordBits}}

Shr(a, k) == {i - k : i \in {j \in a : j >= k}}

\* a word is added as four limbs
LimbBits == WordBits \div 4

LimbBase == 2 ^ LimbBits

\* the number written by the 16 bits of a from position lo upward
Limb16(a, lo) ==
    LET b(i) == IF (lo + i) \in a THEN 1 ELSE 0
    IN  b(0) + 2 * b(1) + 4 * b(2) + 8 * b(3) + 16 * b(4) + 32 * b(5)
          + 64 * b(6) + 128 * b(7) + 256 * b(8) + 512 * b(9) + 1024 * b(10)
          + 2048 * b(11) + 4096 * b(12) + 8192 * b(13) + 16384 * b(14)
          + 32768 * b(15)

\* the k-th 16-bit limb of a, and the bits of a limb value v placed at limb k
Limb(a, k) == Limb16(a, k * LimbBits)

LimbAt(v, k) ==
    {k * LimbBits + j : j \in {i \in 0 .. (LimbBits - 1) : (v \div (2 ^ i)) % 2 = 1}}

\* a + b + c modulo 2^64 (c is 0 or 1), limb by limb with carry
AddCarry(a, b, c) ==
    LET s0 == Limb(a, 0) + Limb(b, 0) + c
        s1 == Limb(a, 1) + Limb(b, 1) + (s0 \div LimbBase)
        s2 == Limb(a, 2) + Limb(b, 2) + (s1 \div LimbBase)
        s3 == Limb(a, 3) + Limb(b, 3) + (s2 \div LimbBase)
    IN  LimbAt(s0 % LimbBase, 0) \cup LimbAt(s1 % LimbBase, 1)
          \cup LimbAt(s2 % LimbBase, 2) \cup LimbAt(s3 % LimbBase, 3)

Add(a, b) == AddCarry(a, b, 0)

\* two's complement: -a = ~a + 1 and a - b = a + ~b + 1
Neg(a) == AddCarry(Not(a), Zero, 1)

Sub(a, b) == AddCarry(a, Not(b), 1)

IsNeg(a) == (WordBits - 1) \in a

\* unsigned and signed (int64) comparison
\* a < b when the highest bit they differ in is a bit of b
ULess(a, b) == \E i \in b \ a : \A j \in a \ b : j < i

Less(a, b) == IF IsNeg(a) # IsNeg(b) THEN IsNeg(a) ELSE ULess(a, b)

LessEq(a, b) == a = b \/ Less(a, b)

\* the natural number of a word below 2^31
NatOf(a) == Limb(a, 0) + LimbBase * Limb(a \ {2 * LimbBits - 1}, 1)

\* words of small magnitude to and from TLA+ integers
FromInt(n) == IF n < 0 THEN Neg(FromNat(0 - n)) ELSE FromNat(n)

ToInt(a) == IF IsNeg(a) THEN 0 - NatOf(Neg(a)) ELSE NatOf(a)

\* the word written as the hexadecimal digits hs, most significant first
Hex(hs) ==
    UNION {{4 * (Len(hs) - k) + j : j \in FromNat(hs[k])} : k \in 1 .. Len(hs)}

MinusOne == Not(Zero)


(***************************************************************************)
(* idworker.IdWorker                                                       *)
(***************************************************************************)
\* bounds of the model
MaxTick == 2

WrapTick == 1

MaxCalls == 3

PairCalls == 1

PairTick == 1

IdSlack == 2

Callers == {"g1", "g2"}

Instances == {"iw1", "iw2"}

NoCaller == "nobody"

\* "no id yet": a set that is no word
NoId == {WordBits}

Unbounded == 0 - 1

VARIABLES
    iw,          \* the IdWorker structs in play: instance -> fields
    now,         \* the wall clock, in milliseconds since the Unix epoch
    tick,        \* milliseconds the clock is ahead of where the run began
    lastTick,    \* the most milliseconds the clock gets ahead in the run
    pc,          \* position of each goroutine inside NextId
    on,          \* the instance each goroutine is calling
    result,      \* the (id, error) pair NextId is about to return
    budget,      \* NextId calls still allowed per instance, or Unbounded
    maxIssued,   \* history: greatest id computed so far per instance
    prevMax,     \* history: maxIssued as it was when the goroutine's id was computed
    issued,      \* history: ids returned per instance, in order (budgeted runs)
    floor        \* history: greatest id returned by the instance when the call began

idVars == <<iw, now, tick, lastTick, pc, on, result, budget,
            maxIssued, prevMax, issued, floor>>

\* tools.GenerateFlowNo: the package variables, the clock and the goroutines
VARIABLES
    sequenceCounter,  \* var sequenceCounter int64
    sequenceMutex,    \* var sequenceMutex sync.Mutex: its holder, or NoCaller
    lastTimestamp,    \* var lastTimestamp int64: the 100 ms period last served
    wallClock,        \* the wall clock, in units of 10 ms since local midnight
    flowPc,           \* position of each goroutine inside GenerateFlowNo
    nowRead,          \* now := time.Now(), as each goroutine read it
    flowBudget,       \* GenerateFlowNo calls still allowed, or Unbounded
    flowKeep,         \* how many of the latest results the history keeps
    flowNos,          \* history: the latest results, in the order of the critical sections
    uniform           \* the last call of generateUniformRandom: its reads and outcome

flowVars == <<sequenceCounter, sequenceMutex, lastTimestamp, wallClock, flowPc,
              nowRead, flowBudget, flowKeep, flowNos, uniform>>

\* utils.IntObfuscator: the obfuscators built and what they were applied to
VARIABLES
    obf,      \* obfuscator -> its struct (xorKey), once NewObfuscator built it
    plain,    \* obfuscator -> the last argument of Obfuscate
    code,     \* obfuscator -> the last result of Obfuscate
    back,     \* obfuscator -> the last result of Deobfuscate
    known     \* the (plaintext, ciphertext) pair an observer has seen

obfVars == <<obf, plain, code, back, known>>

\* utils.Snowflake: one instance, the clock and what NextID returned
VARIABLES
    sf,        \* the Snowflake struct (nodeID, sequence, lastMillis), once built
    sfTick,    \* the wall clock, in milliseconds after ClockStart
    sfBudget,  \* NextID calls still allowed
    sfCalls,   \* history: how many NextID calls have returned
    sfIds      \* history: the set of ids NextID has returned

snowVars == <<sf, sfTick, sfBudget, sfCalls, sfIds>>

\* var baseValue int64 = -1
baseValue == MinusOne

\* iw.startTime = 1463834116272 = 0x154D35000B0
startTime == Hex(<<1, 5, 4, 13, 3, 5, 0, 0, 0, 11, 0>>)

workerIdBits == 5

datacenterIdBits == 5

maxWorkerId == ToInt(Xor(baseValue, Shl(baseValue, workerIdBits)))

maxDatacenterId == ToInt(Xor(baseValue, Shl(baseValue, datacenterIdBits)))

sequenceBits == 12

workerIdLeftShift == sequenceBits

datacenterIdLeftShift == workerIdBits + workerIdLeftShift

timestampLeftShift == datacenterIdBits + datacenterIdLeftShift

sequenceMask == Xor(baseValue, Shl(baseValue, sequenceBits))

\* &IdWorker{}: the zero value of the struct, before InitIdWorker
\* (history) the environment a constructor read: nothing yet
NoEnv == [used |-> FALSE, workerIdStr |-> << >>, datacenterIdStr |-> << >>]

ZeroIdWorker ==
    [state |-> "new", workerId |-> 0, datacenterId |-> 0, sequence |-> 0,
     lastTimestamp |-> Zero, idLock |-> NoCaller, env |-> NoEnv]

\* what NextId returns: the id, whether err is non-nil, the milliseconds the
\* error reports, and (history) whether the id came out of tilNextMillis
\* read is the latest reading of the clock the call has taken (history)
NoResult == [id |-> Zero, err |-> FALSE, back |-> Zero, spun |-> FALSE, read |-> NoId]

\* (mutant) the range checks with >= for >
InitFailsOffByOne(w, d) ==
    \/ w < 0 \/ w >= maxWorkerId
    \/ d < 0 \/ d >= maxDatacenterId

\* (mutant) the check of datacenterId left out
InitFailsWorkerOnly(w, d) == w < 0 \/ w > maxWorkerId

\* the range checks of InitIdWorker, made after the fields are assigned
InitFails(w, d) ==
    \/ w < 0 \/ w > maxWorkerId
    \/ d < 0 \/ d > maxDatacenterId

InitIdWorker(i, workerId, datacenterId) ==
    /\ i \in DOMAIN iw
    /\ iw[i].state = "new"
    /\ iw' = [iw EXCEPT ![i] =
                [state |-> IF InitFails(workerId, datacenterId) THEN "failed" ELSE "ready",
                 workerId |-> workerId,
                 datacenterId |-> datacenterId,
                 sequence |-> 0,
                 lastTimestamp |-> FromInt(0 - 1),
                 idLock |-> NoCaller,
                 env |-> iw[i].env]]
    /\ UNCHANGED <<now, tick, lastTick, pc, on, result, budget, maxIssued, prevMax,
                   issued, floor>>
    /\ UNCHANGED <<flowVars, obfVars, snowVars>>

\* the number a run of decimal digits writes
RECURSIVE DigitsValue(_)
DigitsValue(ds) ==
    IF ds = << >> THEN 0
    ELSE 10 * DigitsValue(SubSeq(ds, 1, Len(ds) - 1)) + (ds[Len(ds)] - 48)

\* the digits of ds from its first digit that is not 0 on
RECURSIVE Significant(_)
Significant(ds) ==
    IF ds # << >> /\ Head(ds) = 48 THEN Significant(Tail(ds)) ELSE ds

\* strconv.ParseInt(str, 10, 64) of a string given as its code points: an
\* optional sign, then digits only and at least one (else a syntax error); a
\* number of 20 and more significant digits is out of the range of int64.
\* (Strings of 10 to 19 significant digits are not among those in play.)
ParseInt(str) ==
    LET signed == str # << >> /\ (str[1] = 43 \/ str[1] = 45)
        ds     == IF signed THEN Tail(str) ELSE str
    IN  IF ds = << >> \/ \E k \in 1 .. Len(ds) : ds[k] < 48 \/ ds[k] > 57
        THEN [err |-> TRUE, value |-> 0]
        ELSE IF Len(Significant(ds)) >= 20
        THEN [err |-> TRUE, value |-> 0]
        ELSE [err |-> FALSE,
              value |-> IF str[1] = 45 THEN 0 - DigitsValue(ds) ELSE DigitsValue(ds)]

\* GetWorkerIdFromEnv, workerIdStr being os.Getenv("IDWORKER_WORKER_ID")
GetWorkerIdFromEnv(workerIdStr) ==
    IF workerIdStr # << >>
    THEN IF ParseInt(workerIdStr).err THEN [err |-> TRUE, value |-> 0]
         ELSE IF ParseInt(workerIdStr).value < 0 \/ ParseInt(workerIdStr).value > 31
         THEN [err |-> TRUE, value |-> 0]
         ELSE [err |-> FALSE, value |-> ParseInt(workerIdStr).value]
    ELSE [err |-> TRUE, value |-> 0]

\* GetDatacenterIdFromEnv, datacenterIdStr being os.Getenv("IDWORKER_DATACENTER_ID")
GetDatacenterIdFromEnv(datacenterIdStr) ==
    IF datacenterIdStr # << >>
    THEN IF ParseInt(datacenterIdStr).err THEN [err |-> TRUE, value |-> 0]
         ELSE IF ParseInt(datacenterIdStr).value < 0 \/ ParseInt(datacenterIdStr).value > 31
         THEN [err |-> TRUE, value |-> 0]
         ELSE [err |-> FALSE, value |-> ParseInt(datacenterIdStr).value]
    ELSE [err |-> TRUE, value |-> 0]

\* GetMachineWorkerId and GetMachineDatacenterId: int64(hash[0]) & 0x1F of the
\* MD5 sum of the machine's description, which collectMachineInfo always
\* delivers (its error is always nil)
GetMachineWorkerId(hash0) == [err |-> FALSE, value |-> hash0 % 32]

GetMachineDatacenterId(hash0) == [err |-> FALSE, value |-> hash0 % 32]

\* NewIdWorkerFromEnv: each id from its variable, or from the machine when
\* reading the variable gave an error of any kind; then InitIdWorker.  The
\* instance is returned ("ready") or nil is ("nil").
NewIdWorkerFromEnv(i, workerIdStr, datacenterIdStr, workerHash0, datacenterHash0) ==
    LET fromEnvW     == GetWorkerIdFromEnv(workerIdStr)
        fromEnvD     == GetDatacenterIdFromEnv(datacenterIdStr)
        machineW     == GetMachineWorkerId(workerHash0)
        machineD     == GetMachineDatacenterId(datacenterHash0)
        workerId     == IF fromEnvW.err THEN machineW.value ELSE fromEnvW.value
        datacenterId == IF fromEnvD.err THEN machineD.value ELSE fromEnvD.value
        failed       == \/ (fromEnvW.err /\ machineW.err)
                        \/ (fromEnvD.err /\ machineD.err)
                        \/ InitFails(workerId, datacenterId)
    IN  /\ i \in DOMAIN iw
        /\ iw[i].state = "new"
        /\ iw' = [iw EXCEPT ![i] =
                    [state |-> IF failed THEN "nil" ELSE "ready",
                     workerId |-> workerId,
                     datacenterId |-> datacenterId,
                     sequence |-> 0,
                     lastTimestamp |-> FromInt(0 - 1),
                     idLock |-> NoCaller,
                     env |-> [used |-> TRUE, workerIdStr |-> workerIdStr,
                              datacenterIdStr |-> datacenterIdStr]]]
        /\ UNCHANGED <<now, tick, lastTick, pc, on, result, budget, maxIssued,
                       prevMax, issued, floor>>
        /\ UNCHANGED <<flowVars, obfVars, snowVars>>

\* values of the two variables: unset, "0", "31", "32", "-1", "+5", "007",
\* "abc", "3x" and twenty 9s
EnvValues ==
    {<< >>, <<48>>, <<51, 49>>, <<51, 50>>, <<45, 49>>, <<43, 53>>, <<48, 48, 55>>,
     <<97, 98, 99>>, <<51, 120>>, [k \in 1 .. 20 |-> 57]}

\* first bytes of an MD5 sum
HashBytes == {0, 31, 32, 255}

\* timestamp := time.Now().UnixNano() / int64(time.Millisecond)
NowMillis == now

\* (mutant) the packing without the sequence field
PackIdNoSequence(ts, datacenterId, workerId, sequence) ==
    LET id == Or(Or(Shl(Sub(ts, startTime), timestampLeftShift),
                    Shl(FromInt(datacenterId), datacenterIdLeftShift)),
                 Shl(FromInt(workerId), workerIdLeftShift))
    IN  IF IsNeg(id) THEN Neg(id) ELSE id

\* (mutant) the packing with the datacenter id shifted like the worker id
PackIdSameShift(ts, datacenterId, workerId, sequence) ==
    LET id == Or(Or(Or(Shl(Sub(ts, startTime), timestampLeftShift),
                       Shl(FromInt(datacenterId), workerIdLeftShift)),
                    Shl(FromInt(workerId), workerIdLeftShift)),
                 FromInt(sequence))
    IN  IF IsNeg(id) THEN Neg(id) ELSE id

\* (mutant) the packing with the places of the two ids exchanged
PackIdSwapped(ts, datacenterId, workerId, sequence) ==
    LET id == Or(Or(Or(Shl(Sub(ts, startTime), timestampLeftShift),
                       Shl(FromInt(workerId), datacenterIdLeftShift)),
                    Shl(FromInt(datacenterId), workerIdLeftShift)),
                 FromInt(sequence))
    IN  IF IsNeg(id) THEN Neg(id) ELSE id

\* the id NextId packs from its fields, made positive when the packing is negative
PackId(ts, datacenterId, workerId, sequence) ==
    LET id == Or(Or(Or(Shl(Sub(ts, startTime), timestampLeftShift),
                       Shl(FromInt(datacenterId), datacenterIdLeftShift)),
                    Shl(FromInt(workerId), workerIdLeftShift)),
                 FromInt(sequence))
    IN  IF IsNeg(id) THEN Neg(id) ELSE id

\* (mutant) the sum without the mask
NextSequenceUnmasked(sequence) == sequence + 1

\* iw.sequence = (iw.sequence + 1) & iw.sequenceMask
\* (the mask 2^12 - 1 of a sum that is not negative is its remainder by 2^12)
NextSequence(sequence) == (sequence + 1) % (NatOf(sequenceMask) + 1)

\* (mutant) no check of the clock against lastTimestamp
MovedBackIgnored(ts, last) == FALSE

\* (mutant) a clock one millisecond behind is let through
MovedBackStrictlyMore(ts, last) == Less(Add(ts, One), last)

\* timestamp < iw.lastTimestamp: the clock moved backwards
MovedBack(ts, last) == Less(ts, last)

\* (mutant) the loop never ends
KeepsSpinningAlways(ts, last) == TRUE

\* (mutant) the loop never spins
KeepsSpinningNever(ts, last) == FALSE

\* (mutant) the loop condition with < for <=
KeepsSpinningStrict(ts, last) == Less(ts, last)

\* the loop condition of tilNextMillis: timestamp <= iw.lastTimestamp
KeepsSpinning(ts, last) == LessEq(ts, last)

MaxId(a, b) == IF a = NoId THEN b ELSE IF Less(a, b) THEN b ELSE a

\* the greatest id in a history of returned ids
MaxReturned(h) ==
    IF h = << >> THEN NoId
    ELSE h[CHOOSE k \in 1 .. Len(h) : \A j \in 1 .. Len(h) : LessEq(h[j], h[k])]

\* a goroutine calls NextId on a constructed instance
Call(c, i) ==
    /\ pc[c] = "idle"
    /\ i \in DOMAIN iw
    /\ iw[i].state = "ready"
    /\ budget[i] # 0
    /\ pc' = [pc EXCEPT ![c] = "wait"]
    /\ on' = [on EXCEPT ![c] = i]
    /\ budget' = [budget EXCEPT ![i] = IF @ = Unbounded THEN @ ELSE @ - 1]
    /\ floor' = [floor EXCEPT ![c] =
                   IF budget[i] = Unbounded THEN NoId
                   ELSE MaxReturned(issued[i])]
    /\ UNCHANGED <<iw, now, tick, lastTick, result, maxIssued, prevMax, issued>>
    /\ UNCHANGED <<flowVars, obfVars, snowVars>>

\* lines 89-100: store the timestamp, pack the id, return it
Issue(c, ts, seq, spun) ==
    LET i  == on[c]
        id == PackId(ts, iw[i].datacenterId, iw[i].workerId, seq)
    IN  /\ iw' = [iw EXCEPT ![i].sequence = seq, ![i].lastTimestamp = ts,
                            ![i].idLock = c]
        /\ result' = [result EXCEPT ![c] = [id |-> id, err |-> FALSE, back |-> Zero,
                                              spun |-> spun, read |-> ts]]
        /\ prevMax' = [prevMax EXCEPT ![c] = maxIssued[i]]
        /\ maxIssued' = [maxIssued EXCEPT ![i] = MaxId(@, id)]
        /\ pc' = [pc EXCEPT ![c] = "unlock"]

\* (mutant) no lock is waited for
LockFreeAlways(i) == TRUE

\* iw.idLock.Lock() goes through: no goroutine holds the lock of the instance
LockFree(i) == iw[i].idLock = NoCaller

\* lines 70-87: iw.idLock.Lock(), then read the clock and branch on it.  No
\* other goroutine reads or writes the instance between the two, so they are
\* one step.
NextId(c) ==
    LET i    == on[c]
        ts   == NowMillis
        last == iw[i].lastTimestamp
    IN  /\ pc[c] = "wait"
        /\ LockFree(i)
        /\ IF MovedBack(ts, last)
           THEN /\ result' = [result EXCEPT ![c] =
                                [id |-> FromInt(0 - 1), err |-> TRUE,
                                 back |-> Sub(last, ts), spun |-> FALSE,
                                 read |-> ts]]
                /\ iw' = [iw EXCEPT ![i].idLock = c]
                /\ pc' = [pc EXCEPT ![c] = "unlock"]
                /\ UNCHANGED <<maxIssued, prevMax>>
           ELSE IF ts = last
           THEN IF NextSequence(iw[i].sequence) = 0
                THEN /\ iw' = [iw EXCEPT ![i].sequence = 0, ![i].idLock = c]
                     /\ pc' = [pc EXCEPT ![c] = "spin"]
                     /\ result' = [result EXCEPT ![c].read = ts]
                     /\ UNCHANGED <<maxIssued, prevMax>>
                ELSE Issue(c, ts, NextSequence(iw[i].sequence), FALSE)
           ELSE Issue(c, ts, 0, FALSE)
        /\ UNCHANGED <<now, tick, lastTick, on, budget, issued, floor>>
        /\ UNCHANGED <<flowVars, obfVars, snowVars>>

\* tilNextMillis, one reading of the clock by its loop: a reading at or below
\* lastTimestamp, one below it included, keeps the loop spinning; the first
\* reading above it leaves the loop and the id is made of it
TilNextMillis(c) ==
    /\ pc[c] = "spin"
    /\ IF KeepsSpinning(NowMillis, iw[on[c]].lastTimestamp)
       THEN /\ result' = [result EXCEPT ![c].read = NowMillis]
            /\ UNCHANGED <<iw, pc, maxIssued, prevMax>>
       ELSE Issue(c, NowMillis, 0, TRUE)
    /\ UNCHANGED <<now, tick, lastTick, on, budget, issued, floor>>
    /\ UNCHANGED <<flowVars, obfVars, snowVars>>

\* defer iw.idLock.Unlock(), and the return to the caller
Return(c) ==
    LET i == on[c]
    IN  /\ pc[c] = "unlock"
        /\ iw' = [iw EXCEPT ![i].idLock = NoCaller]
        /\ issued' = [issued EXCEPT ![i] =
                        IF result[c].err \/ budget[i] = Unbounded THEN @
                        ELSE Append(@, result[c].id)]
        /\ pc' = [pc EXCEPT ![c] = "idle"]
        /\ result' = [result EXCEPT ![c] = NoResult]
        /\ prevMax' = [prevMax EXCEPT ![c] = NoId]
        /\ floor' = [floor EXCEPT ![c] = NoId]
        /\ UNCHANGED <<now, tick, lastTick, on, budget, maxIssued>>
        /\ UNCHANGED <<flowVars, obfVars, snowVars>>

\* the wall clock advances by a millisecond
Tick ==
    /\ tick < lastTick
    /\ tick' = tick + 1
    /\ now' = Add(now, One)
    /\ UNCHANGED <<iw, lastTick, pc, on, result, budget, maxIssued, prevMax,
                   issued, floor>>
    /\ UNCHANGED <<flowVars, obfVars, snowVars>>

\* the wall clock advances by a millisecond, any number of times: it is
\* followed up to the first millisecond past the lastTimestamp of every
\* instance (further ahead, NextId behaves alike)
TickOn ==
    /\ \E i \in DOMAIN iw :
          /\ iw[i].state = "ready"
          /\ LessEq(now, iw[i].lastTimestamp)
    /\ now' = Add(now, One)
    /\ UNCHANGED <<iw, tick, lastTick, pc, on, result, budget, maxIssued, prevMax,
                   issued, floor>>
    /\ UNCHANGED <<flowVars, obfVars, snowVars>>

\* the wall clock is set back by a millisecond (an NTP correction)
ClockBack ==
    /\ tick > 0
    /\ tick' = tick - 1
    /\ now' = Sub(now, One)
    /\ UNCHANGED <<iw, lastTick, pc, on, result, budget, maxIssued, prevMax,
                   issued, floor>>
    /\ UNCHANGED <<flowVars, obfVars, snowVars>>

\* a millisecond of November 2026 (1793491200000 = 0x1A19467E800), inside the 41-bit
\* window after startTime
ClockStart == Hex(<<1, 10, 1, 9, 4, 6, 7, 14, 8, 0, 0>>)

\* the instances iws at rest, the clock at one of starts, each instance with
\* its own number of calls to come
IdInitFrom(iws, calls, ticks, starts) ==
    /\ iw = iws
    /\ now \in starts
    /\ tick = 0
    /\ lastTick = ticks
    /\ pc = [c \in Callers |-> "idle"]
    /\ on = [c \in Callers |-> CHOOSE i \in DOMAIN calls : TRUE]
    /\ result = [c \in Callers |-> NoResult]
    /\ budget = calls
    /\ maxIssued = [i \in DOMAIN calls |-> NoId]
    /\ prevMax = [c \in Callers |-> NoId]
    /\ issued = [i \in DOMAIN calls |-> << >>]
    /\ floor = [c \in Callers |-> NoId]

\* the state before any constructor ran, the clock at one of starts
IdInitAt(insts, calls, ticks, starts) ==
    /\ iw = [i \in insts |-> ZeroIdWorker]
    /\ now \in starts
    /\ tick = 0
    /\ lastTick = ticks
    /\ pc = [c \in Callers |-> "idle"]
    /\ on = [c \in Callers |-> CHOOSE i \in insts : TRUE]
    /\ result = [c \in Callers |-> NoResult]
    /\ budget = [i \in insts |-> calls]
    /\ maxIssued = [i \in insts |-> NoId]
    /\ prevMax = [c \in Callers |-> NoId]
    /\ issued = [i \in insts |-> << >>]
    /\ floor = [c \in Callers |-> NoId]

IdInit(insts, calls, ticks) == IdInitAt(insts, calls, ticks, {ClockStart})

\* clocks at the ends of the 41-bit window of the timestamp field: the
\* millisecond before startTime, the last but one of the window, and the
\* first one past the window, startTime + 2^41 (in the year 2086)
EdgeClocks == {Sub(startTime, One),
               Add(startTime, Sub(Shl(One, WordBits - 1 - timestampLeftShift),
                                  Add(One, One))),
               Add(startTime, Shl(One, WordBits - 1 - timestampLeftShift))}

\* the steps of a run whose calls are too few for the sequence to wrap: no
\* call gets to tilNextMillis
NextIdSteps ==
    \/ \E c \in Callers, i \in Instances : Call(c, i)
    \/ \E c \in Callers : NextId(c)
    \/ \E c \in Callers : Return(c)
    \/ Tick
    \/ ClockBack

\* constructor arguments tried where the behaviour of NextId is explored
EdgeIds == {0 - 1, 0, maxWorkerId, maxWorkerId + 1}

\* constructor arguments tried where only the constructor is explored
AllIds == (0 - IdSlack) .. (maxWorkerId + IdSlack)

(***************************************************************************)
(* tools.GenerateFlowNo                                                    *)
(***************************************************************************)
\* bounds of the model
FlowTicks == 3

FlowCalls == 3

FormatCalls == 2

\* A Go string is modelled as the sequence of the code points of its runes;
\* len() counts the bytes of their UTF-8 encoding.
Utf8Len(r) == IF r < 128 THEN 1 ELSE IF r < 2048 THEN 2 ELSE IF r < 65536 THEN 3 ELSE 4

RECURSIVE ByteLen(_)
ByteLen(str) == IF str = << >> THEN 0 ELSE Utf8Len(Head(str)) + ByteLen(Tail(str))

\* unicode.ToUpper on the runes in play: a-z, and the two letters below U+0800
\* whose upper case is an ASCII letter (U+0131 dotless i -> I, U+017F long s -> S)
UpperRune(r) ==
    IF r >= 97 /\ r <= 122 THEN r - 32
    ELSE IF r = 305 THEN 73
    ELSE IF r = 383 THEN 83
    ELSE r

\* strings.ToUpper
ToUpper(str) == [k \in 1 .. Len(str) |-> UpperRune(str[k])]

RECURSIVE Digits(_)
Digits(n) == IF n < 10 THEN <<48 + n>> ELSE Digits(n \div 10) \o <<48 + (n % 10)>>

Zeros(k) == [j \in 1 .. k |-> 48]

\* (mutant) %d for %0<width>d: no zero padding
SprintfNotPadded(width, n) == Digits(n)

\* fmt.Sprintf("%0<width>d", n)
SprintfD(width, n) ==
    LET sign == IF n < 0 THEN <<45>> ELSE << >>
        ds   == Digits(IF n < 0 THEN 0 - n ELSE n)
    IN  sign \o Zeros(width - Len(ds) - Len(sign)) \o ds

\* the local date of the run: 1 November 2026
Today == [year |-> 2026, month |-> 11, day |-> 1]

\* now.Format("20060102150405") of a clock reading t (10 ms units since midnight)
Format(t) ==
    SprintfD(4, Today.year) \o SprintfD(2, Today.month) \o SprintfD(2, Today.day)
      \o SprintfD(2, t \div 360000) \o SprintfD(2, (t \div 6000) % 60)
      \o SprintfD(2, (t \div 100) % 60)

\* (now.Nanosecond() / 1000000) / 10
HundredMillis(t) == t % 100

\* now.UnixNano() / int64(100*time.Millisecond): the 100 ms period of a reading.
\* Periods are counted from local midnight here; the periods the Unix epoch is
\* ahead of it are the same for every reading and no period of the day is 0,
\* the value lastTimestamp starts with.
Period(t) == t \div 10

\* sequenceCounter >= 1000
MaxSequence == 1000

\* v % m for a 32-bit word v and 0 < m <= 2^15
UMod32(v, m) == ((Limb(v, 1) % m) * (LimbBase % m) + Limb(v, 0)) % m

MaxUint32 == Hex(<<15, 15, 15, 15, 15, 15, 15, 15>>)

\* limit := (4294967295 / max) * max
RejectLimit(max) == Sub(MaxUint32, FromNat(UMod32(MaxUint32, max)))

\* uint32(randomBytes[0])<<24 | ... | uint32(randomBytes[3])
RandomValue(bytes) ==
    Or(Or(Or(Shl(FromNat(bytes[1]), 24), Shl(FromNat(bytes[2]), 16)),
          Shl(FromNat(bytes[3]), 8)),
       FromNat(bytes[4]))

\* (mutant) no draw is drawn again
RejectedNever(randomValue, limit) == FALSE

\* the draw is at or above the limit and is drawn again
Rejected(randomValue, limit) == ~ULess(randomValue, limit)

\* (mutant) the fallback not reduced
FallbackUnreduced(max, nanos) == nanos

\* return int(now.UnixNano() % int64(max)), nanos being the nanoseconds of the
\* clock below 10 ms: the clock is past 1970, UnixNano() is not negative, and
\* with max = 1000, what GenerateFlowNo passes, UnixNano() % max is nanos % max
Fallback(max, nanos) == nanos % max

\* generateUniformRandom(max) over the reads io.ReadFull made, a failed read
\* falling back to the clock.  used counts the reads consumed; done is FALSE
\* while the loop wants more; failed and nanos tell of a fallback (history).
RECURSIVE generateUniformRandom(_, _, _)
generateUniformRandom(max, reads, nanos) ==
    IF max <= 0
    THEN [done |-> TRUE, value |-> 0, used |-> 0, failed |-> FALSE, nanos |-> 0]
    ELSE IF reads = << >>
    THEN [done |-> FALSE, value |-> 0, used |-> 0, failed |-> FALSE, nanos |-> 0]
    ELSE IF Head(reads).err
    THEN [done |-> TRUE, value |-> Fallback(max, nanos), used |-> 1,
          failed |-> TRUE, nanos |-> nanos]
    ELSE IF Rejected(RandomValue(Head(reads).bytes), RejectLimit(max))
    THEN [generateUniformRandom(max, Tail(reads), nanos) EXCEPT !.used = @ + 1]
    ELSE [done |-> TRUE, value |-> UMod32(RandomValue(Head(reads).bytes), max),
          used |-> 1, failed |-> FALSE, nanos |-> 0]

\* no call of generateUniformRandom followed yet
NoDraw == [max |-> 0, reads |-> << >>, out |-> generateUniformRandom(0, << >>, 0)]

\* a call generateUniformRandom(max) that makes the reads of the run, the
\* last of which ends its loop, followed from the first read to the return
CallUniformRandom(max, reads, nanos) ==
    /\ uniform = NoDraw
    /\ generateUniformRandom(max, reads, nanos).done
    /\ generateUniformRandom(max, reads, nanos).used = Len(reads)
    /\ uniform' = [max |-> max, reads |-> reads,
                   out |-> generateUniformRandom(max, reads, nanos)]
    /\ UNCHANGED <<sequenceCounter, sequenceMutex, lastTimestamp, wallClock, flowPc,
                   nowRead, flowBudget, flowKeep, flowNos>>
    /\ UNCHANGED <<idVars, obfVars, snowVars>>

\* fmt.Sprintf("%s%s%s%03d%03d", prefix, dateStr, hundredMillisStr, seq, randomNum)
FlowNo(prefix, t, seq, randomNum) ==
    ToUpper(prefix) \o Format(t) \o SprintfD(2, HundredMillis(t))
      \o SprintfD(3, seq) \o SprintfD(3, randomNum)

\* the history with one more result, cut to the latest flowKeep
Kept(h) == IF Len(h) > flowKeep THEN Tail(h) ELSE h

\* lines 28-39: now := time.Now() and what is derived from it, before the lock
ReadNow(g) ==
    /\ flowPc[g] = "idle"
    /\ flowBudget # 0
    /\ nowRead' = [nowRead EXCEPT ![g] = wallClock]
    /\ flowPc' = [flowPc EXCEPT ![g] = "lock"]
    /\ flowBudget' = IF flowBudget = Unbounded THEN flowBudget ELSE flowBudget - 1
    /\ UNCHANGED <<sequenceCounter, sequenceMutex, lastTimestamp, wallClock,
                   flowKeep, flowNos, uniform>>
    /\ UNCHANGED <<idVars, obfVars, snowVars>>

\* lines 62-72: seq is read under the lock, the lock released, the random
\* suffix drawn and the string returned.  Nothing after the unlock reads or
\* writes shared state, so the result is recorded in the step that unlocks.
FlowReturn(g, t, prefix, drawn) ==
    LET seq == sequenceCounter'
    IN  /\ sequenceMutex' = NoCaller
        /\ flowNos' = Kept(Append(flowNos,
                        [prefix |-> prefix, seq |-> seq, by |-> g,
                         waited |-> (t # nowRead[g]),
                         random |-> [failed |-> drawn.failed, nanos |-> drawn.nanos],
                         flowNo |-> FlowNo(prefix, t, seq, drawn.value)]))
        /\ flowPc' = [flowPc EXCEPT ![g] = "idle"]
        /\ nowRead' = [nowRead EXCEPT ![g] = 0]

\* (mutant) no lock is waited for
MutexFreeAlways == TRUE

\* sequenceMutex.Lock() goes through: no goroutine holds the lock
MutexFree == sequenceMutex = NoCaller

\* lines 42-49: sequenceMutex.Lock() and the branch on the period read before
\* the lock; a counter that reaches 1000 goes to wait for the next period
\* with the lock held
GenerateFlowNo(g, prefix, drawn) ==
    LET currentTimestamp == Period(nowRead[g])
    IN  /\ flowPc[g] = "lock"
        /\ MutexFree
        /\ IF currentTimestamp # lastTimestamp
           THEN /\ sequenceCounter' = 0
                /\ lastTimestamp' = currentTimestamp
                /\ FlowReturn(g, nowRead[g], prefix, drawn)
           ELSE IF sequenceCounter + 1 >= MaxSequence
           THEN /\ sequenceCounter' = sequenceCounter + 1
                /\ sequenceMutex' = g
                /\ flowPc' = [flowPc EXCEPT ![g] = "spin"]
                /\ UNCHANGED <<lastTimestamp, nowRead, flowNos>>
           ELSE /\ sequenceCounter' = sequenceCounter + 1
                /\ UNCHANGED lastTimestamp
                /\ FlowReturn(g, nowRead[g], prefix, drawn)
        /\ UNCHANGED <<wallClock, flowBudget, flowKeep, uniform>>
        /\ UNCHANGED <<idVars, obfVars, snowVars>>

\* (mutant) the loop is left at once
StaysInPeriodNever(t, currentTimestamp) == FALSE

\* the loop condition: now.UnixNano()/int64(100*time.Millisecond) <= currentTimestamp
StaysInPeriod(t, currentTimestamp) == Period(t) <= currentTimestamp

\* lines 51-59: the loop leaves with the first reading of a later period, the
\* strings are made again from it and the counter starts over
WaitNextPeriod(g, prefix, drawn) ==
    /\ flowPc[g] = "spin"
    /\ ~StaysInPeriod(wallClock, Period(nowRead[g]))
    /\ sequenceCounter' = 0
    /\ lastTimestamp' = Period(wallClock)
    /\ FlowReturn(g, wallClock, prefix, drawn)
    /\ UNCHANGED <<wallClock, flowBudget, flowKeep, uniform>>
    /\ UNCHANGED <<idVars, obfVars, snowVars>>

\* the first reading of the clock: 12:34:59.98 local time
FlowStart == ((12 * 60 + 34) * 60 + 59) * 100 + 98

\* the wall clock advances by 10 ms
FlowTick ==
    /\ wallClock < FlowStart + FlowTicks
    /\ wallClock' = wallClock + 1
    /\ UNCHANGED <<sequenceCounter, sequenceMutex, lastTimestamp, flowPc, nowRead,
                   flowBudget, flowKeep, flowNos, uniform>>
    /\ UNCHANGED <<idVars, obfVars, snowVars>>

FlowInit(calls, keep) ==
    /\ sequenceCounter = 0
    /\ sequenceMutex = NoCaller
    /\ lastTimestamp = 0
    /\ wallClock = FlowStart
    /\ flowPc = [g \in Callers |-> "idle"]
    /\ nowRead = [g \in Callers |-> 0]
    /\ flowBudget = calls
    /\ flowKeep = keep
    /\ flowNos = << >>
    /\ uniform = NoDraw

\* the value of sequenceCounter the wait for the next period is explored from
FlowSpinStart == 998

\* the package at rest with FlowSpinStart + 1 results of the current period
\* returned, their strings not kept
FlowInitFrom(counter, calls, keep) ==
    /\ sequenceCounter = counter
    /\ sequenceMutex = NoCaller
    /\ lastTimestamp = Period(FlowStart)
    /\ wallClock = FlowStart
    /\ flowPc = [g \in Callers |-> "idle"]
    /\ nowRead = [g \in Callers |-> 0]
    /\ flowBudget = calls
    /\ flowKeep = keep
    /\ flowNos = << >>
    /\ uniform = NoDraw

\* prefixes: "", "sf", "Ab1" and U+0131 "d"
Prefixes == {<< >>, <<115, 102>>, <<65, 98, 49>>, <<305, 100>>}

\* what io.ReadFull can deliver: 0, 999, 1000, 0x12345678, the greatest draw
\* accepted (4294966999), the least rejected (4294967000), the greatest, an error
Reads ==
    {[err |-> FALSE, bytes |-> b] :
        b \in {<<0, 0, 0, 0>>, <<0, 0, 3, 231>>, <<0, 0, 3, 232>>, <<18, 52, 86, 120>>,
               <<255, 255, 254, 215>>, <<255, 255, 254, 216>>,
               <<255, 255, 255, 255>>}}
      \cup {[err |-> TRUE, bytes |-> <<0, 0, 0, 0>>]}

\* the draws 0..1023 and 4294965760..4294967295: the first thousand, the
\* last thousand below the limit, and every draw from the limit on
BlockReads ==
    {[err |-> FALSE, bytes |-> <<h, h, x, y>>] :
        h \in {0}, x \in 0 .. 3, y \in 0 .. 255}
      \cup {[err |-> FALSE, bytes |-> <<h, h, x, y>>] :
              h \in {255}, x \in 250 .. 255, y \in 0 .. 255}

\* runs of reads of generateUniformRandom: one read, or a read of the least
\* or the greatest draw at or above the limit and one more
BlockRuns ==
    {<<r>> : r \in BlockReads \cup Reads}
      \cup {<<r, q>> : r \in {[err |-> FALSE, bytes |-> <<255, 255, 254, 216>>],
                             [err |-> FALSE, bytes |-> <<255, 255, 255, 255>>]},
                       q \in BlockReads \cup Reads}

\* runs of one or two reads
ReadRuns == {<<r>> : r \in Reads} \cup {<<r, q>> : r \in Reads, q \in Reads}

\* nanoseconds below 10 ms of the clock the fallback reads
Nanos == {0, 1234567, 9999999}

\* randomNum := generateUniformRandom(1000) over every run of reads that
\* ends the loop with its last read
RandomNums ==
    {generateUniformRandom(1000, d[1], d[2]) :
        d \in {e \in ReadRuns \X Nanos :
                 /\ generateUniformRandom(1000, e[1], e[2]).done
                 /\ generateUniformRandom(1000, e[1], e[2]).used = Len(e[1])}}

\* the same over one read that is accepted: where the interleavings are explored
OneRandomNum ==
    generateUniformRandom(1000, <<[err |-> FALSE, bytes |-> <<18, 52, 86, 120>>]>>, 0)

(***************************************************************************)
(* utils.IntObfuscator                                                     *)
(***************************************************************************)
Obfuscators == {"target", "test"}

\* var permutation = [64]uint{...}: permutation[i + 1] is the table's entry i
permutation ==
    <<7, 22, 13, 8, 30, 24, 17, 2,
      28, 19, 11, 29, 5, 20, 15, 31,
      0, 12, 25, 21, 4, 10, 16, 1,
      27, 23, 6, 14, 9, 3, 26, 18,
      45, 58, 41, 50, 62, 56, 49, 34,
      60, 51, 43, 61, 37, 52, 47, 63,
      32, 44, 57, 53, 36, 42, 48, 33,
      59, 55, 38, 46, 40, 35, 54, 39>>

\* func init(): InversePermutation[p] = uint(i) for every i, p of the table
InversePermutation ==
    [q \in 1 .. WordBits |->
        CHOOSE i \in BitPos : permutation[i + 1] = q - 1]

\* 0x5a5a5a5a5a5a5a5a
DefaultXorKey == Hex(<<5, 10, 5, 10, 5, 10, 5, 10, 5, 10, 5, 10, 5, 10, 5, 10>>)

\* (mutant) the key kept as given, 0 too
XorKeyAsGiven(xorKey) == xorKey

\* if xorKey == 0 { xorKey = 0x5a5a5a5a5a5a5a5a }
XorKeyOrDefault(xorKey) == IF xorKey = Zero THEN DefaultXorKey ELSE xorKey

\* (mutant) the loop one bit short: i < 63
permuteBitsShort(value, perm) ==
    UNION {Shl(And(Shr(value, i), One), perm[i + 1]) : i \in 0 .. (WordBits - 2)}

\* (mutant) the table read from the output side: result bit i is value bit p[i]
permuteBitsGather(value, perm) == {i \in BitPos : perm[i + 1] \in value}

\* result |= ((value >> i) & 1) << p[i], for i = 0 .. 63
permuteBitsFast(value, perm) ==
    UNION {Shl(And(Shr(value, i), One), perm[i + 1]) : i \in BitPos}

PermuteBits(value, perm) == permuteBitsFast(value, perm)

\* (mutant) the two steps of Obfuscate in the order of Deobfuscate
ObfuscatePermuteFirst(o, id) == Xor(permuteBitsFast(id, permutation), o.xorKey)

\* (mutant) the permutation alone, the key left out
ObfuscateNoKey(o, id) == permuteBitsFast(id, permutation)

\* o.Obfuscate(id): XOR with the key, then permute
Obfuscate(o, id) == permuteBitsFast(Xor(id, o.xorKey), permutation)

\* (mutant) the two steps of Deobfuscate in the order of Obfuscate
DeobfuscateXorFirst(o, c) == permuteBitsFast(Xor(c, o.xorKey), InversePermutation)

\* o.Deobfuscate(code): permute back, then XOR with the key
Deobfuscate(o, c) == Xor(permuteBitsFast(c, InversePermutation), o.xorKey)

\* crackedXorKey := int64(PermuteBits(uint64(knownCiphertext), InversePermutation)) ^ knownPlaintext
CrackedXorKey(knownPlaintext, knownCiphertext) ==
    Xor(PermuteBits(knownCiphertext, InversePermutation), knownPlaintext)

\* an obfuscator not built yet; arg is (history) the argument NewObfuscator got
NotBuilt == [built |-> FALSE, xorKey |-> Zero, arg |-> Zero]

NothingKnown == [seen |-> FALSE, plaintext |-> Zero, ciphertext |-> Zero]

\* NewObfuscator(xorKey)
NewObfuscator(n, xorKey) ==
    /\ ~obf[n].built
    /\ obf' = [obf EXCEPT ![n] = [built |-> TRUE, xorKey |-> XorKeyOrDefault(xorKey),
                                   arg |-> xorKey]]
    /\ UNCHANGED <<plain, code, back, known>>
    /\ UNCHANGED <<idVars, flowVars, snowVars>>

\* code := o.Obfuscate(id)
CallObfuscate(n, id) ==
    /\ obf[n].built
    /\ plain' = [plain EXCEPT ![n] = id]
    /\ code' = [code EXCEPT ![n] = Obfuscate(obf[n], id)]
    /\ back' = [back EXCEPT ![n] = NoId]
    /\ UNCHANGED <<obf, known>>
    /\ UNCHANGED <<idVars, flowVars, snowVars>>

\* o.Deobfuscate(code) of the code Obfuscate just gave
CallDeobfuscate(n) ==
    /\ code[n] # NoId
    /\ back[n] = NoId
    /\ back' = [back EXCEPT ![n] = Deobfuscate(obf[n], code[n])]
    /\ UNCHANGED <<obf, plain, code, known>>
    /\ UNCHANGED <<idVars, flowVars, snowVars>>

\* an observer who does not hold the key sees one plaintext with its ciphertext
Observe ==
    /\ ~known.seen
    /\ code["target"] # NoId
    /\ known' = [seen |-> TRUE, plaintext |-> plain["target"],
                 ciphertext |-> code["target"]]
    /\ UNCHANGED <<obf, plain, code, back>>
    /\ UNCHANGED <<idVars, flowVars, snowVars>>

\* testObfuscator := NewObfuscator(crackedXorKey)
Crack ==
    /\ known.seen
    /\ NewObfuscator("test", CrackedXorKey(known.plaintext, known.ciphertext))

ObfInit ==
    /\ obf = [n \in Obfuscators |-> NotBuilt]
    /\ plain = [n \in Obfuscators |-> NoId]
    /\ code = [n \in Obfuscators |-> NoId]
    /\ back = [n \in Obfuscators |-> NoId]
    /\ known = NothingKnown

MinInt64 == {WordBits - 1}

MaxInt64 == Not(MinInt64)

\* keys: 0, 1, -1, the default, the key of the security test, the least int64
Keys == {Zero, One, MinusOne, DefaultXorKey, MinInt64,
         Hex(<<1, 2, 3, 4, 5, 6, 7, 8, 1, 2, 3, 4, 5, 6, 7, 8>>)}

\* keys of two obfuscators side by side: 0, 1, -1, 0x10001, and the keys
\* 0x1111111111111111 and 0x2222222222222222 of TestIntObfuscator_DifferentKeys
PairKeys == {Zero, One, MinusOne, {0, 16},
             Hex(<<1, 1, 1, 1, 1, 1, 1, 1, 1, 1, 1, 1, 1, 1, 1, 1>>),
             Hex(<<2, 2, 2, 2, 2, 2, 2, 2, 2, 2, 2, 2, 2, 2, 2, 2>>)}

\* arguments: 0, 1, -1, the least and the greatest int64, 123456789, 999999
Ids == {Zero, One, MinusOne, MinInt64, MaxInt64,
        Hex(<<7, 5, 11, 12, 13, 1, 5>>), Hex(<<15, 4, 2, 3, 15>>)}

(***************************************************************************)
(* utils.Snowflake                                                         *)
(***************************************************************************)

\* NextID calls of one run
SnowCalls == 4

\* the clock moves within ClockStart .. ClockStart + SnowTicks milliseconds
SnowTicks == 2

\* 0xFFF: the 12-bit sequence mask
SnowSequenceMask == 4095

\* 0x1FFFFFFFFFFF: the low 45 bits of the millisecond clock
SnowTimeMask == 0 .. 44

\* no instance yet
NoSnowflake == [built |-> FALSE, nodeID |-> 0, sequence |-> 0, lastMillis |-> Zero]

\* NewSnowflake(nodeID): &Snowflake{nodeID: nodeID}, the other fields zero
NewSnowflake(nodeID) ==
    /\ ~sf.built
    /\ sf' = [built |-> TRUE, nodeID |-> nodeID, sequence |-> 0, lastMillis |-> Zero]
    /\ UNCHANGED <<sfTick, sfBudget, sfCalls, sfIds>>
    /\ UNCHANGED <<idVars, flowVars, obfVars>>

\* time.Now().UnixNano() / 1_000_000
SnowNow == Add(ClockStart, FromNat(sfTick))

\* if now == s.lastMillis { (s.sequence + 1) & 0xFFF } else { 0 }
SnowSequence(nowMs, lastMillis, sequence) ==
    IF nowMs = lastMillis THEN (sequence + 1) % (SnowSequenceMask + 1) ELSE 0

\* ((now & 0x1FFFFFFFFFFF) << 22) | (s.nodeID << 12) | s.sequence
SnowId(nowMs, nodeID, sequence) ==
    Or(Or(Shl(And(nowMs, SnowTimeMask), 22), Shl(FromNat(nodeID), 12)),
       FromNat(sequence))

\* s.NextID(): the mutex is held from the first statement to the return, so
\* the calls of one instance follow one another whole
NextID ==
    /\ sf.built
    /\ sfBudget > 0
    /\ sf' = [sf EXCEPT !.sequence = SnowSequence(SnowNow, sf.lastMillis, sf.sequence),
                        !.lastMillis = SnowNow]
    /\ sfIds' = sfIds \cup {SnowId(SnowNow, sf.nodeID,
                                   SnowSequence(SnowNow, sf.lastMillis, sf.sequence))}
    /\ sfCalls' = sfCalls + 1
    /\ sfBudget' = sfBudget - 1
    /\ UNCHANGED sfTick
    /\ UNCHANGED <<idVars, flowVars, obfVars>>

\* the clock reaches the next millisecond
SnowTick ==
    /\ sfTick < SnowTicks
    /\ sfTick' = sfTick + 1
    /\ UNCHANGED <<sf, sfBudget, sfCalls, sfIds>>
    /\ UNCHANGED <<idVars, flowVars, obfVars>>

\* the clock is set back by one millisecond
SnowClockBack ==
    /\ sfTick > 0
    /\ sfTick' = sfTick - 1
    /\ UNCHANGED <<sf, sfBudget, sfCalls, sfIds>>
    /\ UNCHANGED <<idVars, flowVars, obfVars>>

\* before NewSnowflake, with a number of NextID calls to come
SnowInit(calls) ==
    /\ sf = NoSnowflake
    /\ sfTick = 0
    /\ sfBudget = calls
    /\ sfCalls = 0
    /\ sfIds = {}

SnowOff == SnowInit(0)

\* an instance in the middle of the millisecond ClockStart: seen calls have
\* returned within it, the last with the sequence seen - 1
SnowMidMillisecond(nodeID, seen, calls) ==
    /\ sf = [built |-> TRUE, nodeID |-> nodeID, sequence |-> seen - 1,
             lastMillis |-> ClockStart]
    /\ sfTick = 0
    /\ sfBudget = calls
    /\ sfCalls = seen
    /\ sfIds = {SnowId(ClockStart, nodeID, q) : q \in 0 .. (seen - 1)}

\* node ids: the least, 1 as in Test_encodeToShortID, the greatest of 10 bits
SnowNodes == {0, 1, 1023}

vars == <<idVars, flowVars, obfVars, snowVars>>

\* the parts of the state a specification leaves at rest
IdOff == IdInit({"iw1"}, 0, 0)

FlowOff == FlowInit(0, 0)

\* one instance, a bounded number of calls, full history
Init == IdInit({"iw1"}, MaxCalls, MaxTick) /\ FlowOff /\ ObfInit /\ SnowOff

Next ==
    \/ \E w \in EdgeIds, d \in EdgeIds : InitIdWorker("iw1", w, d)
    \/ NextIdSteps

Spec == Init /\ [][Next]_vars

\* two instances, a bounded number of calls each, full history
InitPair == IdInit(Instances, PairCalls, PairTick) /\ FlowOff /\ ObfInit /\ SnowOff

NextPair ==
    \/ \E i \in Instances, w \in EdgeIds, d \in EdgeIds : InitIdWorker(i, w, d)
    \/ NextIdSteps

SpecPair == InitPair /\ [][NextPair]_vars

\* one instance, any number of calls: the sequence wraps
InitWrap == IdInit({"iw1"}, Unbounded, WrapTick) /\ FlowOff /\ ObfInit /\ SnowOff

NextWrap ==
    \/ InitIdWorker("iw1", 1, 1)
    \/ NextIdSteps
    \/ \E c \in Callers : TilNextMillis(c)

SpecWrap == InitWrap /\ [][NextWrap]_vars

\* the sequence number the spin is explored from
SpinStart == 4094

\* an instance at rest between two calls of the millisecond ClockStart, with
\* SpinStart + 1 ids of it returned: what InitIdWorker(workerId, datacenterId)
\* and that many NextId calls leave
MidMillisecond(workerId, datacenterId) ==
    [ZeroIdWorker EXCEPT !.state = "ready", !.workerId = workerId,
                         !.datacenterId = datacenterId, !.sequence = SpinStart,
                         !.lastTimestamp = ClockStart]

\* two instances, the first about to use up the sequence numbers of its
\* millisecond, the second not yet constructed: a goroutine spins on the
\* first while the second is used
InitSpin ==
    /\ IdInitFrom([i \in Instances |->
                      IF i = "iw1" THEN MidMillisecond(1, 1) ELSE ZeroIdWorker],
                  [i \in Instances |-> IF i = "iw1" THEN MaxCalls ELSE PairCalls],
                  WrapTick, {ClockStart})
    /\ FlowOff /\ ObfInit /\ SnowOff

NextSpin ==
    \/ InitIdWorker("iw2", 0, 0)
    \/ NextIdSteps
    \/ \E c \in Callers : TilNextMillis(c)

SpecSpin == InitSpin /\ [][NextSpin]_vars

\* one instance about to use up the sequence numbers of its millisecond, a
\* clock that goes on ticking and never back, goroutines that go on running
InitLive ==
    /\ IdInitFrom([i \in {"iw1"} |-> MidMillisecond(1, 1)],
                  [i \in {"iw1"} |-> MaxCalls], 0, {ClockStart})
    /\ FlowOff /\ ObfInit /\ SnowOff

NextLive ==
    \/ \E c \in Callers : Call(c, "iw1")
    \/ \E c \in Callers : NextId(c)
    \/ \E c \in Callers : TilNextMillis(c)
    \/ \E c \in Callers : Return(c)
    \/ TickOn

\* a goroutine in NextId that can go on does so (at the lock, once no other
\* call is to come; in the spin; at the return), and the clock ticks
SpecLive ==
    /\ InitLive /\ [][NextLive]_vars
    /\ \A c \in Callers : WF_vars(NextId(c) \/ TilNextMillis(c) \/ Return(c))
    /\ WF_vars(TickOn)

\* one instance, every constructor argument around the valid range
InitCtor == IdInit({"iw1"}, 0, 0) /\ FlowOff /\ ObfInit /\ SnowOff

NextCtor == \E w \in AllIds, d \in AllIds : InitIdWorker("iw1", w, d)

SpecCtor == InitCtor /\ [][NextCtor]_vars

\* one instance built from the environment
NextEnv ==
    \E workerIdStr \in EnvValues, datacenterIdStr \in EnvValues,
       workerHash0 \in HashBytes, datacenterHash0 \in HashBytes :
        NewIdWorkerFromEnv("iw1", workerIdStr, datacenterIdStr, workerHash0,
                           datacenterHash0)

SpecEnv == InitCtor /\ [][NextEnv]_vars

\* one instance, a bounded number of calls, the clock around the ends of the
\* timestamp field
InitEdge == IdInitAt({"iw1"}, MaxCalls, MaxTick, EdgeClocks) /\ FlowOff /\ ObfInit /\ SnowOff

SpecEdge == InitEdge /\ [][Next]_vars

\* GenerateFlowNo called concurrently, every result kept: the interleavings
InitFlow == IdOff /\ FlowInit(FlowCalls, FlowCalls) /\ ObfInit /\ SnowOff

NextFlow ==
    \/ \E g \in Callers : ReadNow(g)
    \/ \E g \in Callers : GenerateFlowNo(g, <<115, 102>>, OneRandomNum)
    \/ FlowTick

SpecFlow == InitFlow /\ [][NextFlow]_vars

\* the prefix each goroutine calls with: "sf" and "Ab1"
CallerPrefix(g) == IF g = "g1" THEN <<115, 102>> ELSE <<65, 98, 49>>

\* GenerateFlowNo called concurrently, each goroutine with a prefix of its
\* own, when the period has one sequence number left: the wait for the next
\* period
InitFlowSpin == IdOff /\ FlowInitFrom(FlowSpinStart, FlowCalls, FlowCalls) /\ ObfInit /\ SnowOff

NextFlowSpin ==
    \/ \E g \in Callers : ReadNow(g)
    \/ \E g \in Callers : GenerateFlowNo(g, CallerPrefix(g), OneRandomNum)
    \/ \E g \in Callers : WaitNextPeriod(g, CallerPrefix(g), OneRandomNum)
    \/ FlowTick

SpecFlowSpin == InitFlowSpin /\ [][NextFlowSpin]_vars

\* one call generateUniformRandom(1000), over the runs of reads
InitUniform == IdOff /\ FlowOff /\ ObfInit /\ SnowOff

NextUniform == \E reads \in BlockRuns : CallUniformRandom(1000, reads, 1234567)

SpecUniform == InitUniform /\ [][NextUniform]_vars

\* GenerateFlowNo with every prefix and every run of reads, the latest result kept
InitFormat == IdOff /\ FlowInit(FormatCalls, 1) /\ ObfInit /\ SnowOff

NextFormat ==
    \/ \E g \in Callers : ReadNow(g)
    \/ \E g \in Callers, prefix \in Prefixes, drawn \in RandomNums :
          GenerateFlowNo(g, prefix, drawn)
    \/ FlowTick

SpecFormat == InitFormat /\ [][NextFormat]_vars

\* obfuscators built, applied, and one of them cracked from a known pair
InitObf == IdOff /\ FlowOff /\ ObfInit /\ SnowOff

NextObf ==
    \/ \E xorKey \in Keys : NewObfuscator("target", xorKey)
    \/ \E n \in Obfuscators, id \in Ids : CallObfuscate(n, id)
    \/ \E n \in Obfuscators : CallDeobfuscate(n)
    \/ Observe
    \/ Crack

SpecObf == InitObf /\ [][NextObf]_vars

\* two obfuscators, each built with a key of its own, applied to the same arguments
NextKeys ==
    \/ \E n \in Obfuscators, xorKey \in PairKeys : NewObfuscator(n, xorKey)
    \/ \E n \in Obfuscators, id \in Ids : CallObfuscate(n, id)

SpecKeys == InitObf /\ [][NextKeys]_vars

\* one Snowflake from its construction, under a clock that moves both ways
InitSnowflake == IdOff /\ FlowOff /\ ObfInit /\ SnowInit(SnowCalls)

NextSnowflake ==
    \/ \E nodeID \in SnowNodes : NewSnowflake(nodeID)
    \/ NextID
    \/ SnowTick
    \/ SnowClockBack

SpecSnowflake == InitSnowflake /\ [][NextSnowflake]_vars

\* one Snowflake that has returned SpinStart + 1 ids within the millisecond
InitSnowflakeWrap ==
    /\ IdOff /\ FlowOff /\ ObfInit
    /\ \E nodeID \in SnowNodes : SnowMidMillisecond(nodeID, SpinStart + 1, SnowCalls)

NextSnowflakeWrap == NextID \/ SnowTick

SpecSnowflakeWrap == InitSnowflakeWrap /\ [][NextSnowflakeWrap]_vars


(***************************************************************************)
(* Properties of idworker.IdWorker                                         *)
(***************************************************************************)
\* C1: for one instance and any interleaving of goroutines, every id NextId
\* computes is greater than every id the instance computed before it,
\* whichever goroutine got that one, also after more than 4096 calls in one
\* millisecond; so no two returned ids are equal.
C1_NoTwoIdsEqual ==
    \A c \in Callers :
        (pc[c] = "unlock" /\ ~result[c].err) =>
            (prevMax[c] = NoId \/ Less(prevMax[c], result[c].id))

\* a goroutine holds the first id of the next millisecond, which came out of
\* tilNextMillis after the 4096 ids of the millisecond were used up, while
\* the other goroutine waits for the lock
C1_Witness ==
    \E c \in Callers, d \in Callers :
        /\ pc[c] = "unlock" /\ ~result[c].err /\ result[c].spun
        /\ prevMax[c] = PackId(ClockStart, 1, 1, NatOf(sequenceMask))
        /\ pc[d] = "wait" /\ on[d] = on[c]

\* C2: a NextId call that begins after earlier calls on the instance have
\* returned gets an id strictly greater than each of theirs.
C2_SequentialIdsIncrease ==
    \A c \in Callers :
        (pc[c] = "unlock" /\ ~result[c].err) =>
            (floor[c] = NoId \/ Less(floor[c], result[c].id))

\* a third id, computed in the millisecond of the one before it
C2_Witness ==
    \E c \in Callers :
        /\ pc[c] = "unlock" /\ ~result[c].err
        /\ Len(issued[on[c]]) = 2 /\ floor[c] = issued[on[c]][2]
        /\ iw[on[c]].sequence > 0

\* C3: a NextId call that reads a millisecond below lastTimestamp returns -1
\* and an error reporting lastTimestamp minus that millisecond, and leaves
\* sequence and lastTimestamp as they were.
C3_ClockBackIsRefused ==
    [][\A c \in Callers :
          (pc[c] = "wait" /\ pc'[c] # "wait" /\ Less(now, iw[on[c]].lastTimestamp)) =>
              /\ pc'[c] = "unlock"
              /\ result'[c].err
              /\ result'[c].id = FromInt(0 - 1)
              /\ result'[c].back = Sub(iw[on[c]].lastTimestamp, now)
              /\ iw'[on[c]].sequence = iw[on[c]].sequence
              /\ iw'[on[c]].lastTimestamp = iw[on[c]].lastTimestamp]_vars

\* a call refused for a clock two milliseconds behind, after two ids were
\* returned in the later millisecond
C3_Witness ==
    \E c \in Callers :
        /\ pc[c] = "unlock" /\ result[c].err
        /\ ToInt(result[c].back) = 2
        /\ iw[on[c]].sequence = 1

\* C4: InitIdWorker returns an error exactly when workerId or datacenterId is
\* outside [0,31].
C4_InitRange ==
    \A i \in DOMAIN iw :
        iw[i].state # "new" =>
            (iw[i].state = "failed" <=>
                (iw[i].workerId \notin 0 .. 31 \/ iw[i].datacenterId \notin 0 .. 31))

\* InitIdWorker(31, 31) succeeded
C4_Witness ==
    \E i \in DOMAIN iw :
        iw[i].state = "ready" /\ iw[i].workerId = 31 /\ iw[i].datacenterId = 31

\* C5: two instances constructed with different (workerId, datacenterId)
\* pairs never return the same id.
C5_WorkersDisjoint ==
    (/\ iw["iw1"].state = "ready" /\ iw["iw2"].state = "ready"
     /\ <<iw["iw1"].workerId, iw["iw1"].datacenterId>>
          # <<iw["iw2"].workerId, iw["iw2"].datacenterId>>) =>
        \A j \in 1 .. Len(issued["iw1"]), k \in 1 .. Len(issued["iw2"]) :
            issued["iw1"][j] # issued["iw2"][k]

\* both instances returned an id in the same millisecond with the same
\* sequence, their pairs being each other's mirror image
C5_Witness ==
    /\ Len(issued["iw1"]) = 1 /\ Len(issued["iw2"]) = 1
    /\ iw["iw1"].lastTimestamp = iw["iw2"].lastTimestamp
    /\ iw["iw1"].sequence = iw["iw2"].sequence
    /\ iw["iw1"].workerId = iw["iw2"].datacenterId
    /\ iw["iw1"].datacenterId = iw["iw2"].workerId
    /\ iw["iw1"].workerId # iw["iw1"].datacenterId


\* C12: every id NextId returns without error is greater than 0, for every
\* clock value.
C12_IdsArePositive ==
    \A c \in Callers :
        (pc[c] = "unlock" /\ ~result[c].err) => Less(Zero, result[c].id)


\* a variable set to a number outside [0,31]
SetOutOfRange(str) ==
    /\ str # << >>
    /\ ~ParseInt(str).err
    /\ (ParseInt(str).value < 0 \/ ParseInt(str).value > 31)

\* C13: when IDWORKER_WORKER_ID or IDWORKER_DATACENTER_ID is set to a value
\* outside [0,31], NewIdWorkerFromEnv fails with an error and returns no
\* generator.
C13_EnvOutOfRangeFails ==
    \A i \in DOMAIN iw :
        (/\ iw[i].env.used
         /\ (SetOutOfRange(iw[i].env.workerIdStr)
               \/ SetOutOfRange(iw[i].env.datacenterIdStr)))
            => iw[i].state = "nil"


\* C16 (as amended): an IdWorker whose InitIdWorker returned no error has
\* workerId and datacenterId in [0,31]; one whose InitIdWorker returned an
\* error holds the rejected arguments, one of them outside [0,31]; and no
\* step of NextId changes either field.
C16_IdsInRangeOnceAccepted ==
    /\ [](\A i \in DOMAIN iw :
            /\ iw[i].state = "ready" =>
                 (iw[i].workerId \in 0 .. 31 /\ iw[i].datacenterId \in 0 .. 31)
            /\ iw[i].state = "failed" =>
                 (iw[i].workerId \notin 0 .. 31 \/ iw[i].datacenterId \notin 0 .. 31))
    /\ [][\A i \in DOMAIN iw :
            iw[i].state # "new" =>
                /\ iw'[i].workerId = iw[i].workerId
                /\ iw'[i].datacenterId = iw[i].datacenterId]_vars

\* an instance accepted with the greatest worker id has returned two ids
C16_Witness ==
    \E i \in DOMAIN iw :
        /\ iw[i].state = "ready"
        /\ iw[i].workerId = 31 /\ iw[i].datacenterId = 0
        /\ Len(issued[i]) = 2

\* C16 as stated: in every state of an IdWorker, the state left by an
\* InitIdWorker call that returned an error included, workerId and
\* datacenterId lie in [0,31], and NextId never changes them.
C16_IdsAlwaysInRange ==
    /\ [](\A i \in DOMAIN iw :
            iw[i].workerId \in 0 .. 31 /\ iw[i].datacenterId \in 0 .. 31)
    /\ [][\A i \in DOMAIN iw :
            iw[i].state # "new" =>
                /\ iw'[i].workerId = iw[i].workerId
                /\ iw'[i].datacenterId = iw[i].datacenterId]_vars


\* C17: NextId never waits for a backward clock to catch up: a call whose
\* latest reading of the clock, the readings of the sequence-overflow spin
\* included, is lower than lastTimestamp has ended with the clock-regression
\* error.
C17_BackwardReadingEndsCall ==
    \A c \in Callers :
        (result[c].read # NoId /\ Less(result[c].read, iw[on[c]].lastTimestamp)) =>
            (pc[c] = "unlock" /\ result[c].err)


\* the (millisecond, sequence) pair a is before the pair b
PairBefore(a, b) ==
    \/ Less(a.lastTimestamp, b.lastTimestamp)
    \/ (a.lastTimestamp = b.lastTimestamp /\ a.sequence < b.sequence)

\* C18: a NextId call in the millisecond of lastTimestamp whose sequence wraps
\* from 4095 to 0 goes to spin; a spinning call stays spinning or returns an
\* id made of the clock's millisecond, which is above lastTimestamp, and of
\* sequence 0; and every id is issued with a (millisecond, sequence) pair
\* above the pair of the id before it, so no pair is used twice.
C18_WrapWaitsForNextMillisecond ==
    [][\A c \in Callers :
          LET i == on[c]
          IN  /\ (/\ pc[c] = "wait" /\ pc'[c] # "wait"
                  /\ now = iw[i].lastTimestamp /\ iw[i].sequence = 4095) =>
                     /\ pc'[c] = "spin"
                     /\ iw'[i].lastTimestamp = iw[i].lastTimestamp
              /\ (pc[c] = "spin" /\ pc'[c] # "spin") =>
                     /\ pc'[c] = "unlock" /\ ~result'[c].err
                     /\ Less(iw[i].lastTimestamp, now)
                     /\ iw'[i].lastTimestamp = now /\ iw'[i].sequence = 0
                     /\ Shr(result'[c].id, timestampLeftShift) = Sub(now, startTime)
                     /\ And(result'[c].id, sequenceMask) = Zero
              /\ (pc[c] # "unlock" /\ pc'[c] = "unlock" /\ ~result'[c].err) =>
                     PairBefore(iw[i], iw'[i])]_vars

\* the first id of the millisecond after one whose 4096 sequence numbers were
\* used up has been handed out of tilNextMillis, the other goroutine at rest
C18_Witness ==
    \E c \in Callers, d \in Callers :
        /\ pc[c] = "unlock" /\ ~result[c].err /\ result[c].spun
        /\ tick = 1 /\ iw[on[c]].lastTimestamp = Add(ClockStart, One)
        /\ iw[on[c]].sequence = 0
        /\ d # c /\ pc[d] = "idle"


\* C19: sequence is in [0,4095] in every state of an IdWorker, and an id
\* issued with a millisecond above the lastTimestamp before it carries
\* sequence 0.
C19_SequenceInRangeAndReset ==
    /\ [](\A i \in DOMAIN iw : iw[i].sequence \in 0 .. 4095)
    /\ [][\A c \in Callers :
            (/\ pc[c] # "unlock" /\ pc'[c] = "unlock" /\ ~result'[c].err
             /\ Less(iw[on[c]].lastTimestamp, iw'[on[c]].lastTimestamp)) =>
                /\ iw'[on[c]].sequence = 0
                /\ And(result'[c].id, sequenceMask) = Zero]_vars

\* the last sequence number of the second millisecond has been issued, the
\* sequence having started over when the clock reached it
C19_Witness ==
    \E c \in Callers :
        /\ pc[c] = "unlock" /\ ~result[c].err /\ ~result[c].spun
        /\ iw[on[c]].sequence = 4095
        /\ iw[on[c]].lastTimestamp = Add(ClockStart, One)


\* C20: no step of a NextId call on a constructed instance, one that returns
\* an id or one that returns an error, with the clock going forward or back,
\* lowers lastTimestamp.
C20_LastTimestampNeverDecreases ==
    [][\A i \in DOMAIN iw :
          iw[i].state = "ready" =>
              LessEq(iw[i].lastTimestamp, iw'[i].lastTimestamp)]_vars

\* a call has been refused with the clock one millisecond behind
\* lastTimestamp, which stayed where it was
C20_Witness ==
    \E c \in Callers :
        /\ pc[c] = "unlock" /\ result[c].err
        /\ ToInt(result[c].back) = 1
        /\ now = ClockStart
        /\ iw[on[c]].lastTimestamp = Add(ClockStart, One)


\* the millisecond ts is one of the 2^41 from the epoch on
InWindow(ts) ==
    /\ ~IsNeg(Sub(ts, startTime))
    /\ Shr(Sub(ts, startTime), 41) = Zero

\* C21: an id returned for a millisecond with 0 <= now - epoch < 2^41 is
\* (now - epoch)*2^22 + datacenterId*2^17 + workerId*2^12 + sequence, is not
\* negative, and gives back each of the four fields of 41, 5, 5 and 12 bits.
C21_IdIsSumOfFields ==
    \A c \in Callers :
        (pc[c] = "unlock" /\ ~result[c].err /\ InWindow(iw[on[c]].lastTimestamp)) =>
            LET i  == on[c]
                t  == Sub(iw[i].lastTimestamp, startTime)
                id == result[c].id
            IN  /\ id = Add(Add(Add(Shl(t, 22), Shl(FromNat(iw[i].datacenterId), 17)),
                                Shl(FromNat(iw[i].workerId), 12)),
                            FromNat(iw[i].sequence))
                /\ ~IsNeg(id)
                /\ Shr(id, 22) = t
                /\ And(Shr(id, 17), FromNat(31)) = FromNat(iw[i].datacenterId)
                /\ And(Shr(id, 12), FromNat(31)) = FromNat(iw[i].workerId)
                /\ And(id, FromNat(4095)) = FromNat(iw[i].sequence)

\* the second id of the last millisecond of the window, its 41 timestamp bits
\* all set, for datacenter 31 and worker 0
C21_Witness ==
    \E c \in Callers :
        /\ pc[c] = "unlock" /\ ~result[c].err
        /\ Shr(result[c].id, 22) = Sub(Shl(One, 41), One)
        /\ iw[on[c]].datacenterId = 31 /\ iw[on[c]].workerId = 0
        /\ iw[on[c]].sequence = 1


\* the goroutine is in the body of NextId: past Lock(), before Unlock()
InBody(c) == pc[c] = "spin" \/ pc[c] = "unlock"

\* C22: the goroutines in the body of NextId are on different instances;
\* the lock of an instance is held by the goroutine in its body, through the
\* spin and up to the return of an id or of the clock-regression error, and
\* by no goroutine that has returned; and a goroutine that spins on one
\* instance holds the lock of no other, so that NextId on another instance,
\* which waits for the lock of its own instance only, is not kept waiting.
C22_OneCallerPerInstance ==
    /\ \A c \in Callers, d \in Callers :
          (c # d /\ InBody(c) /\ InBody(d)) => on[c] # on[d]
    /\ \A c \in Callers : InBody(c) <=> iw[on[c]].idLock = c
    /\ \A i \in DOMAIN iw :
          iw[i].idLock # NoCaller => on[iw[i].idLock] = i
    /\ \A c \in Callers, i \in DOMAIN iw :
          (pc[c] = "spin" /\ i # on[c]) => iw[i].idLock # c

\* one goroutine spins on the first instance with its lock held while the
\* other has been given an id by the second instance
C22_Witness ==
    \E c \in Callers, d \in Callers :
        /\ pc[c] = "spin" /\ on[c] = "iw1" /\ iw["iw1"].idLock = c
        /\ pc[d] = "unlock" /\ on[d] = "iw2" /\ ~result[d].err


\* C23: with a clock that goes on ticking, every NextId call returns, the
\* calls that wait for the lock and the call that spins for the next
\* millisecond included, and none returns an error for the sequence numbers
\* of a millisecond being used up.
C23_EveryCallReturns ==
    /\ \A c \in Callers : (pc[c] # "idle") ~> (pc[c] = "idle")
    /\ [](\A c \in Callers : pc[c] = "unlock" => ~result[c].err)

\* a call has come out of the spin with an id while the other goroutine
\* waits for the lock
C23_Witness ==
    \E c \in Callers, d \in Callers :
        /\ pc[c] = "unlock" /\ result[c].spun /\ ~result[c].err
        /\ Less(ClockStart, now)
        /\ pc[d] = "wait"


(***************************************************************************)
(* Properties of tools.GenerateFlowNo                                      *)
(***************************************************************************)
\* the 19 digits of a result between the prefix and the random suffix
Stamp(r) == SubSeq(r.flowNo, Len(r.prefix) + 1, Len(r.prefix) + 19)

\* the number a run of decimal digits writes
RECURSIVE DecimalValue(_)
DecimalValue(ds) ==
    IF ds = << >> THEN 0
    ELSE 10 * DecimalValue(SubSeq(ds, 1, Len(ds) - 1)) + (ds[Len(ds)] - 48)

\* C6: over any interleaving of concurrent GenerateFlowNo callers, no two
\* calls return strings with the same time and sequence digits.
C6_NoTwoShareStamp ==
    \A j, k \in 1 .. Len(flowNos) :
        j < k => Stamp(flowNos[j]) # Stamp(flowNos[k])

\* C7 (as amended): every result is the upper-cased prefix followed by exactly
\* 22 decimal digits, the 2 hundred-ms digits in 00..99 and the 3 sequence
\* digits writing the sequence number, which is in 0..999; so its length in
\* bytes is len(ToUpper(prefix)) + 22, and len(prefix) + 22 whenever
\* upper-casing keeps the byte length of the prefix.
C7_UpperPrefixThen22Digits ==
    \A k \in 1 .. Len(flowNos) :
        LET r      == flowNos[k]
            up     == ToUpper(r.prefix)
            digits == SubSeq(r.flowNo, Len(up) + 1, Len(r.flowNo))
        IN  /\ SubSeq(r.flowNo, 1, Len(up)) = up
            /\ Len(digits) = 22
            /\ \A i \in 1 .. Len(digits) : digits[i] >= 48 /\ digits[i] <= 57
            /\ DecimalValue(SubSeq(digits, 15, 16)) \in 0 .. 99
            /\ r.seq \in 0 .. 999
            /\ DecimalValue(SubSeq(digits, 17, 19)) = r.seq
            /\ DecimalValue(SubSeq(digits, 20, 22)) \in 0 .. 999
            /\ ByteLen(r.flowNo) = ByteLen(up) + 22
            /\ (ByteLen(up) = ByteLen(r.prefix) =>
                    ByteLen(r.flowNo) = ByteLen(r.prefix) + 22)

\* C7 witness: a second result of a period, with a two-byte letter in its
\* prefix and the greatest random suffix
C7_Witness ==
    \E k \in 1 .. Len(flowNos) :
        /\ flowNos[k].prefix = <<305, 100>>
        /\ flowNos[k].seq = 1
        /\ ByteLen(flowNos[k].flowNo) = 24
        /\ SubSeq(flowNos[k].flowNo, 22, 24) = <<57, 57, 57>>

\* C7 as stated: the length of every result is len(prefix) + 22.
C7_LengthIsPrefixPlus22 ==
    \A k \in 1 .. Len(flowNos) :
        ByteLen(flowNos[k].flowNo) = ByteLen(flowNos[k].prefix) + 22

\* C14: a call whose read of the random source failed still returns a flow
\* number of the normal layout (the upper-cased prefix, then 22 digits), whose
\* last three digits write the nanoseconds of the clock modulo 1000, a number
\* in 0..999.
C14_FailedReadFallsBackToTime ==
    \A k \in 1 .. Len(flowNos) :
        LET r      == flowNos[k]
            up     == ToUpper(r.prefix)
            digits == SubSeq(r.flowNo, Len(up) + 1, Len(r.flowNo))
        IN  r.random.failed =>
              /\ SubSeq(r.flowNo, 1, Len(up)) = up
              /\ Len(digits) = 22
              /\ \A i \in 1 .. Len(digits) : digits[i] >= 48 /\ digits[i] <= 57
              /\ DecimalValue(SubSeq(digits, 20, 22)) = r.random.nanos % 1000
              /\ DecimalValue(SubSeq(digits, 20, 22)) \in 0 .. 999

\* C14 witness: a result after a failed read with the clock at 1234567 ns,
\* ending in 567
C14_Witness ==
    \E k \in 1 .. Len(flowNos) :
        /\ flowNos[k].random.failed
        /\ flowNos[k].random.nanos = 1234567
        /\ SubSeq(flowNos[k].flowNo, Len(flowNos[k].flowNo) - 2,
                  Len(flowNos[k].flowNo)) = <<53, 54, 55>>

\* the 100 ms bucket a result was made in: the 14 digits of its second and
\* the first of its two hundred-ms digits
Bucket(r) == SubSeq(Stamp(r), 1, 15)

\* C24: for any interleaving of concurrent callers, of two results of the
\* same 100 ms bucket the one whose call took the lock later has the greater
\* sequence number, so that 0 is issued again only in another bucket.
C24_SequenceIncreasesInBucket ==
    \A j, k \in 1 .. Len(flowNos) :
        (j < k /\ Bucket(flowNos[j]) = Bucket(flowNos[k])) =>
            flowNos[j].seq < flowNos[k].seq

\* C29: with a clock that never goes backward, no step of any interleaving
\* of concurrent GenerateFlowNo callers lowers the last period stored in
\* lastTimestamp.
C29_LastPeriodNeverDecreases ==
    [][lastTimestamp <= lastTimestamp']_vars

\* the hour, minute, second and hundred-ms digits of a clock reading, as a number
ClockDigits(t) ==
    (t \div 360000) * 1000000 + ((t \div 6000) % 60) * 10000
      + ((t \div 100) % 60) * 100 + (t % 100)

\* C25: a call that would raise the counter to 1000 in the period stored
\* issues nothing and goes to wait with the lock; a waiting call leaves the
\* wait only with the clock in a later period than the one it read, stores
\* that period, puts the counter to 0, releases the lock and returns sequence
\* 000 with the time digits of the new reading; every sequence number
\* returned is in 0..999, and so is sequenceCounter whenever the lock is free.
C25_FullPeriodWaitsForNext ==
    /\ [](/\ \A k \in 1 .. Len(flowNos) : flowNos[k].seq \in 0 .. 999
          /\ sequenceMutex = NoCaller => sequenceCounter \in 0 .. 999
          /\ \A g \in Callers : flowPc[g] = "spin" => sequenceMutex = g)
    /\ [][\A g \in Callers :
            /\ (/\ flowPc[g] = "lock" /\ flowPc'[g] # "lock"
                /\ nowRead[g] \div 10 = lastTimestamp /\ sequenceCounter = 999) =>
                   /\ flowPc'[g] = "spin" /\ sequenceMutex' = g
                   /\ flowNos' = flowNos
            /\ (flowPc[g] = "spin" /\ flowPc'[g] # "spin") =>
                   /\ wallClock \div 10 > nowRead[g] \div 10
                   /\ lastTimestamp' = wallClock \div 10
                   /\ sequenceCounter' = 0 /\ sequenceMutex' = NoCaller
                   /\ flowNos'[Len(flowNos')].seq = 0
                   /\ flowNos'[Len(flowNos')].by = g
                   /\ DecimalValue(SubSeq(Stamp(flowNos'[Len(flowNos')]), 9, 16))
                        = ClockDigits(wallClock)
                   /\ DecimalValue(SubSeq(Stamp(flowNos'[Len(flowNos')]), 17, 19)) = 0]_vars

\* a call has waited for 12:35:00.00 and returned sequence 000 after the
\* call that returned 999
C25_Witness ==
    \E k \in 2 .. Len(flowNos) :
        /\ flowNos[k].waited /\ flowNos[k].seq = 0
        /\ flowNos[k - 1].seq = 999
        /\ DecimalValue(SubSeq(Stamp(flowNos[k]), 9, 16)) = 12350000

\* C26: a step that writes sequenceCounter or lastTimestamp is a step of a
\* goroutine that takes the free sequenceMutex in it or has held it through
\* the wait; the sequence number returned is the counter read in that step;
\* the one lock is held by a goroutine exactly while it waits for the next
\* period, whatever its prefix, and is free again with every return.
C26_CounterOnlyUnderMutex ==
    /\ [](\A g \in Callers : flowPc[g] = "spin" <=> sequenceMutex = g)
    /\ [][/\ (sequenceCounter' # sequenceCounter \/ lastTimestamp' # lastTimestamp) =>
               \E g \in Callers :
                   \/ /\ flowPc[g] = "lock" /\ flowPc'[g] # "lock"
                      /\ sequenceMutex = NoCaller
                   \/ /\ flowPc[g] = "spin" /\ flowPc'[g] = "idle"
                      /\ sequenceMutex = g
          /\ \A g \in Callers :
               (flowPc[g] # "idle" /\ flowPc'[g] = "idle") =>
                   /\ sequenceMutex \in {NoCaller, g}
                   /\ sequenceMutex' = NoCaller
                   /\ flowNos'[Len(flowNos')].by = g
                   /\ flowNos'[Len(flowNos')].prefix = CallerPrefix(g)
                   /\ flowNos'[Len(flowNos')].seq = sequenceCounter']_vars

\* a goroutine waits for the next period with the lock while the other, whose
\* prefix is another and who has had a result before, is at the lock
C26_Witness ==
    \E g \in Callers, h \in Callers :
        /\ flowPc[g] = "spin" /\ sequenceMutex = g
        /\ flowPc[h] = "lock"
        /\ CallerPrefix(g) # CallerPrefix(h)
        /\ \E k \in 1 .. Len(flowNos) : flowNos[k].by = h

\* a 32-bit draw given by its four bytes: whether it is below
\* 4294967000 = 65535 * 65536 + 65240, and its remainder by 1000
\* (65536 leaves 536)
BelowLimit(b) ==
    \/ b[1] * 256 + b[2] < 65535
    \/ (b[1] * 256 + b[2] = 65535 /\ b[3] * 256 + b[4] < 65240)

Mod1000(b) == (((b[1] * 256 + b[2]) % 1000) * 536 + b[3] * 256 + b[4]) % 1000

\* what generateUniformRandom(1000) returns for the thousand draws
\* 4294966000..4294966999, the last ones below the limit
TopBlockValues ==
    {generateUniformRandom(1000, <<r>>, 0).value :
        r \in {q \in BlockReads :
                 /\ BelowLimit(q.bytes)
                 /\ q.bytes[1] = 255
                 /\ q.bytes[3] * 256 + q.bytes[4] >= 65240 - 1000}}

\* C27: generateUniformRandom(1000) draws again exactly the draws that are
\* not below 4294967000, and returns the first draw below it modulo 1000, a
\* number in 0..999; 4294967000 is a multiple of 1000 and the thousand draws
\* below it give the thousand values of 0..999, so that every value has the
\* same number of accepted draws, 4294967.
C27_AcceptsBelowLimitOnly ==
    /\ RejectLimit(1000) = Hex(<<15, 15, 15, 15, 15, 14, 13, 8>>)
    /\ (535 * 536 + 65240) % 1000 = 0
    /\ TopBlockValues = 0 .. 999
    /\ uniform # NoDraw =>
         /\ uniform.out.done
         /\ uniform.out.value \in 0 .. 999
         /\ \A k \in 1 .. Len(uniform.reads) :
              ~uniform.reads[k].err =>
                  /\ k < Len(uniform.reads) <=> ~BelowLimit(uniform.reads[k].bytes)
                  /\ k = Len(uniform.reads) =>
                        uniform.out.value = Mod1000(uniform.reads[k].bytes)

\* the least draw that is drawn again, 4294967000, was followed by the
\* greatest that is accepted, 4294966999, and 999 returned
C27_Witness ==
    /\ uniform.reads = <<[err |-> FALSE, bytes |-> <<255, 255, 254, 216>>],
                         [err |-> FALSE, bytes |-> <<255, 255, 254, 215>>]>>
    /\ uniform.out.value = 999


(***************************************************************************)
(* Properties of utils.IntObfuscator                                       *)
(***************************************************************************)
\* C8: for every key and every 64-bit integer x, Deobfuscate(Obfuscate(x))
\* equals x.
C8_DeobfuscateUndoesObfuscate ==
    \A n \in Obfuscators : back[n] # NoId => back[n] = plain[n]

\* C8 witness: the least int64 went through an obfuscator keyed 1 and back
C8_Witness ==
    /\ obf["target"].xorKey = One
    /\ plain["target"] = MinInt64
    /\ back["target"] = MinInt64

\* C9: with one (plaintext, ciphertext) pair of an obfuscator whose key is not
\* known, inverse_permute(ciphertext) XOR plaintext is that obfuscator's key,
\* and an obfuscator built from it gives the same Obfuscate result as the
\* original for every other plaintext.
C9_KnownPairGivesKey ==
    obf["test"].built =>
        /\ CrackedXorKey(known.plaintext, known.ciphertext) = obf["target"].xorKey
        /\ obf["test"].xorKey = obf["target"].xorKey
        /\ (code["test"] # NoId /\ code["target"] # NoId
              /\ plain["test"] = plain["target"]) => code["test"] = code["target"]
        /\ \A id \in Ids : Obfuscate(obf["test"], id) = Obfuscate(obf["target"], id)

\* C9 witness: the obfuscator built from the pair and the original, keyed -1,
\* have both obfuscated a plaintext other than the known one
C9_Witness ==
    /\ obf["test"].built
    /\ obf["target"].xorKey = MinusOne
    /\ code["test"] # NoId
    /\ code["test"] = code["target"]
    /\ plain["test"] = plain["target"]
    /\ plain["test"] # known.plaintext

\* C10: NewObfuscator(0) builds an obfuscator with the key
\* 0x5a5a5a5a5a5a5a5a, NewObfuscator(k) with k # 0 keeps k, and the key an
\* obfuscator holds is never 0.
C10_KeyIsArgumentOrDefault ==
    \A n \in Obfuscators :
        obf[n].built =>
            /\ obf[n].arg = Zero => obf[n].xorKey = DefaultXorKey
            /\ obf[n].arg # Zero => obf[n].xorKey = obf[n].arg
            /\ obf[n].xorKey # Zero

\* C10 witness: an obfuscator built with NewObfuscator(0)
C10_Witness ==
    /\ obf["target"].built
    /\ obf["target"].arg = Zero
    /\ obf["target"].xorKey = DefaultXorKey

\* C11: for every input x and every two different non-zero keys, Obfuscate
\* under the one and Obfuscate under the other return different values for x.
C11_DifferentKeysDifferentCodes ==
    (/\ obf["target"].built /\ obf["test"].built
     /\ obf["target"].arg # Zero /\ obf["test"].arg # Zero
     /\ obf["target"].arg # obf["test"].arg
     /\ code["target"] # NoId /\ code["test"] # NoId
     /\ plain["target"] = plain["test"])
        => code["target"] # code["test"]

\* C11 witness: the keys of TestIntObfuscator_DifferentKeys applied to 123456789
C11_Witness ==
    /\ obf["target"].xorKey = Hex(<<1, 1, 1, 1, 1, 1, 1, 1, 1, 1, 1, 1, 1, 1, 1, 1>>)
    /\ obf["test"].xorKey = Hex(<<2, 2, 2, 2, 2, 2, 2, 2, 2, 2, 2, 2, 2, 2, 2, 2>>)
    /\ plain["target"] = Hex(<<7, 5, 11, 12, 13, 1, 5>>)
    /\ plain["test"] = plain["target"]
    /\ code["target"] # code["test"]

\* C15 (as amended): for every non-zero key k and every input x, Obfuscate(x)
\* is different from x unless k = x XOR inverse_permute(x), and equal to x then.
C15_CodeIsInputOnlyForItsKey ==
    \A n \in Obfuscators :
        code[n] # NoId =>
            (code[n] = plain[n] <=>
                obf[n].xorKey = Xor(plain[n], PermuteBits(plain[n], InversePermutation)))

\* C15 witness: a non-zero key and an input it leaves unchanged, next to an
\* obfuscator that changes the same input
C15_Witness ==
    /\ obf["target"].arg = {0, 16}
    /\ plain["target"] = One
    /\ code["target"] = One
    /\ plain["test"] = One
    /\ code["test"] # NoId
    /\ code["test"] # One

\* C15 as stated: for every non-zero key and every input x, Obfuscate(x) is
\* different from x.
C15_CodeDiffersFromInput ==
    \A n \in Obfuscators :
        (code[n] # NoId /\ obf[n].arg # Zero) => code[n] # plain[n]

\* bit i of (id XOR key): set in exactly one of the two
InputBit(n, i) == (i \in plain[n]) # (i \in obf[n].xorKey)

\* C28: Obfuscate(id) moves bit i of (id XOR key) to the output position
\* permutation[i], for each i of 0..63: output bit permutation[i] equals
\* input bit i, and so output bit j equals input bit InversePermutation[j].
C28_InputBitGoesToPermutedPosition ==
    \A n \in Obfuscators :
        code[n] # NoId =>
            /\ \A i \in BitPos : (permutation[i + 1] \in code[n]) <=> InputBit(n, i)
            /\ \A j \in BitPos : (j \in code[n]) <=> InputBit(n, InversePermutation[j + 1])

\* C28 as stated: output bit i equals bit permutation[i] of (id XOR key).
C28_OutputBitFromPermutedInput ==
    \A n \in Obfuscators :
        code[n] # NoId =>
            \A i \in BitPos : (i \in code[n]) <=> InputBit(n, permutation[i + 1])

\* Obfuscate(0) under the key 1 returned 128: input bit 0 went to output
\* bit permutation[0] = 7, while input bit permutation[7] = 2 is clear
C28_Witness ==
    /\ obf["target"].xorKey = One
    /\ plain["target"] = Zero
    /\ code["target"] = {7}
    /\ ~InputBit("target", 2)


(***************************************************************************)
(* Properties of utils.Snowflake                                           *)
(***************************************************************************)

\* C30: no two ids returned by the NextID calls of one Snowflake are equal:
\* the calls that have returned gave as many different ids.
C30_NoTwoIdsEqual == Cardinality(sfIds) = sfCalls

=============================================================================
